---- MODULE Spec2Model ----
(***************************************************************************)
(* Model of whisper_asr/main.py: the command-line driver that selects one  *)
(* file or a directory, calls the external Whisper model on each media     *)
(* file and writes the segments as a SubRip (.srt) file.                   *)
(*                                                                         *)
(* Text is modelled as a sequence of tokens.  In a path the tokens "/"     *)
(* and "." are the separator and the extension separator, every other      *)
(* token is a run of ordinary characters.  A file's content is the         *)
(* sequence of tokens written to it, "\n" being the line feed.             *)
(* A number of seconds is the pair [w, f]: w whole seconds and f ticks of  *)
(* 1/Res second, 0 <= f < Res (exact arithmetic, no binary rounding).      *)
(***************************************************************************)
EXTENDS Integers, Sequences, FiniteSets, TLC

VARIABLES
    args,               \* parsed command line: "version", "all_file", "single"
    pc,                 \* position of the process in main()
    selected_path,      \* what the dialog returned (<<>> when cancelled)
    video_files_path,   \* list built by find_files_with_suffix_glob
    idx,                \* number of list entries the for loop has taken
    cur,                \* transcribe_video's parameter (the media path)
    result,             \* result["segments"] of the last model.transcribe
    srt_path,           \* the rebound srt_path (output path)
    f,                  \* open file object: [open, path, k] (k segments written)
    fs,                 \* the file system: path -> [kind, data]
    console,            \* logger / print output, in order
    arg,                \* argument of a directly called pure function
    ret                 \* its return value

vars == <<args, pc, selected_path, video_files_path, idx, cur, result,
          srt_path, f, fs, console, arg, ret>>

progVars == <<args, pc, selected_path, video_files_path, idx, cur, result,
              srt_path, f, fs, console>>

-----------------------------------------------------------------------------
(* Bounds *)

Res == 10000            \* ticks per second of the modelled real numbers
MaxWhole == 3700        \* whole seconds enumerated densely
MaxPathLen == 5         \* longest path given to splitext directly
MaxSegs == 2            \* longest segment list model.transcribe returns
MaxId == 1              \* largest segment id model.transcribe returns

None == <<"None">>

-----------------------------------------------------------------------------
(* Sequence helpers *)

RECURSIVE Concat(_)
Concat(ss) == IF ss = <<>> THEN <<>> ELSE Head(ss) \o Concat(Tail(ss))

Range(s) == {s[i] : i \in 1..Len(s)}

SeqsUpTo(S, n) == UNION {[1..k -> S] : k \in 0..n}

\* all orders in which the elements of the finite set S can be listed
Perms(S) == {p \in [1..Cardinality(S) -> S] : \A i, j \in 1..Cardinality(S) : p[i] = p[j] => i = j}

IsPrefix(s, t) == Len(s) <= Len(t) /\ SubSeq(t, 1, Len(s)) = s

\* str.rfind, 1-based; 0 when c does not occur
RFind(p, c) ==
    LET I == {i \in 1..Len(p) : p[i] = c}
    IN  IF I = {} THEN 0 ELSE CHOOSE i \in I : \A j \in I : j <= i

-----------------------------------------------------------------------------
(* Number formatting: str(int) and the format spec {n:0w} *)

DigitChar == <<"0", "1", "2", "3", "4", "5", "6", "7", "8", "9">>

RECURSIVE ToDigits(_)
ToDigits(n) ==
    IF n < 10 THEN <<DigitChar[n + 1]>>
    ELSE ToDigits(n \div 10) \o <<DigitChar[(n % 10) + 1]>>

RECURSIVE Zeros(_)
Zeros(k) == IF k <= 0 THEN <<>> ELSE <<"0">> \o Zeros(k - 1)

\* f"{n:0w}": at least w digits, zero-filled on the left, never cut
ZeroPad(n, w) == Zeros(w - Len(ToDigits(n))) \o ToDigits(n)

\* mutant: the millisecond part rounded to nearest instead of truncated
format_timestamp_rounding(seconds) ==
    LET milliseconds == (seconds.f * 1000 + Res \div 2) \div Res
        secs    == seconds.w
        minutes == secs \div 60
        hours   == minutes \div 60
    IN  ZeroPad(hours, 2) \o <<":">> \o ZeroPad(minutes % 60, 2) \o <<":">>
        \o ZeroPad(secs % 60, 2) \o <<",">> \o ZeroPad(milliseconds, 3)

format_timestamp(seconds) ==
    LET milliseconds == (seconds.f * 1000) \div Res     \* int((seconds % 1) * 1000)
        secs    == seconds.w                            \* int(seconds)
        minutes == secs \div 60
        hours   == minutes \div 60
    IN  ZeroPad(hours, 2) \o <<":">> \o ZeroPad(minutes % 60, 2) \o <<":">>
        \o ZeroPad(secs % 60, 2) \o <<",">> \o ZeroPad(milliseconds, 3)

-----------------------------------------------------------------------------
(* Paths *)

SrtSuffix == <<".", "en", ".", "whisper", ".", "srt">>

\* mutant: the extension is cut at the first dot of the path
splitext_first_dot(p) ==
    LET I == {i \in 1..Len(p) : p[i] = "."}
    IN  IF I = {} THEN <<p, <<>>>>
        ELSE LET d == CHOOSE i \in I : \A j \in I : i <= j
             IN  <<SubSeq(p, 1, d - 1), SubSeq(p, d, Len(p))>>

\* os.path.splitext (posixpath / genericpath._splitext)
splitext(p) ==
    LET sepIndex == RFind(p, "/")
        dotIndex == RFind(p, ".")
    IN  IF dotIndex > sepIndex
           /\ \E k \in (sepIndex + 1)..(dotIndex - 1) : p[k] # "."   \* skip leading dots
        THEN <<SubSeq(p, 1, dotIndex - 1), SubSeq(p, dotIndex, Len(p))>>
        ELSE <<p, <<>>>>

\* line 67: os.path.splitext(srt_path)[0] + ".en.whisper.srt"
SrtPathOf(p) == splitext(p)[1] \o SrtSuffix

-----------------------------------------------------------------------------
(* The file system *)

Dir == [kind |-> "dir", data |-> <<>>]
File(data) == [kind |-> "file", data |-> data]

Media == <<"RIFF">>     \* opaque media bytes

\* content left in d/a.en.whisper.srt by an earlier run
StaleSrt ==
    <<"1", "\n", "0", "0", ":", "0", "0", ":", "0", "0", ",", "0", "0", "0", " --> ",
      "0", "0", ":", "0", "0", ":", "0", "9", ",", "0", "0", "0", "\n", "old", "\n", "\n",
      "2", "\n", "0", "0", ":", "0", "0", ":", "0", "9", ",", "0", "0", "0", " --> ",
      "0", "0", ":", "0", "0", ":", "1", "2", ",", "0", "0", "0", "\n", "text", "\n", "\n",
      "3", "\n", "0", "0", ":", "0", "0", ":", "1", "2", ",", "0", "0", "0", " --> ",
      "0", "0", ":", "0", "0", ":", "1", "5", ",", "0", "0", "0", "\n", "tail", "\n", "\n">>

\* the working directory when the program starts; paths are relative to it
Fs0 ==
    (<<"d">> :> Dir)
    @@ (<<"d", "/", "a", ".", "mp3">> :> File(Media))
    @@ (<<"d", "/", "a", ".", "mp4">> :> File(Media))
    @@ (<<"d", "/", "a", ".", "en", ".", "whisper", ".", "srt">> :> File(StaleSrt))
    @@ (<<"d", "/", "b", ".", "txt">> :> File(<<"notes">>))
    @@ (<<"d", "/", "n">> :> File(Media))
    @@ (<<"d", "/", "s">> :> Dir)
    @@ (<<"d", "/", "s", "/", "c", ".", "x", ".", "wav">> :> File(Media))
    @@ (<<"e">> :> Dir)
    @@ (<<"e", "/", "b", ".", "txt">> :> File(<<"notes">>))
    @@ (<<"g">> :> Dir)
    @@ (<<"g", "/", ".", "h", ".", "mp3">> :> File(Media))
    @@ (<<"g", "/", ".", "k">> :> Dir)
    @@ (<<"g", "/", ".", "k", "/", "z", ".", "wav">> :> File(Media))
    @@ (<<"g", "/", "v", ".", "webm">> :> Dir)

IsFile(fsys, p) == p \in DOMAIN fsys /\ fsys[p].kind = "file"
IsDir(fsys, p) == p \in DOMAIN fsys /\ fsys[p].kind = "dir"

\* the last path component (os.path.basename)
Basename(p) == SubSeq(p, RFind(p, "/") + 1, Len(p))

\* the path up to and including the last separator
Dirname(p) == SubSeq(p, 1, RFind(p, "/"))

\* p relative to directory, as glob walks it; None when p is not below directory
RelativeTo(directory, p) ==
    IF directory = <<>> THEN p
    ELSE IF IsPrefix(directory \o <<"/">>, p) /\ Len(p) > Len(directory) + 1
         THEN SubSeq(p, Len(directory) + 2, Len(p))
         ELSE None

\* glob._ishidden applied to every component of a relative path: a component
\* is hidden when it starts with a dot
HasHiddenComponent(rel) ==
    \E i \in 1..Len(rel) : rel[i] = "." /\ (i = 1 \/ rel[i - 1] = "/")

\* fnmatch of a name against "**.<ext>"
MatchesSuffix(name, ext) ==
    Len(name) >= 2 /\ name[Len(name) - 1] = "." /\ name[Len(name)] = ext

\* line 109
suffixes == <<"m4a", "mp3", "webm", "mp4", "mpga", "wav", "mpeg">>

\* the paths glob.glob(join(directory, "**", "**.<ext>"), recursive=True) yields
GlobMatches(fsys, directory, ext) ==
    {p \in DOMAIN fsys :
        /\ RelativeTo(directory, p) # None
        /\ ~HasHiddenComponent(RelativeTo(directory, p))
        /\ MatchesSuffix(Basename(p), ext)}

\* lines 107-113: for each suffix in turn, extend the list by glob's result,
\* which comes in directory-scan order (any order)
RECURSIVE MatchingFiles(_, _, _)
MatchingFiles(fsys, directory, n) ==
    IF n = 0 THEN {<<>>}
    ELSE {l \o m : l \in MatchingFiles(fsys, directory, n - 1),
                   m \in Perms(GlobMatches(fsys, directory, suffixes[n]))}

find_files_with_suffix_glob(fsys, directory) ==
    MatchingFiles(fsys, directory, Len(suffixes))

-----------------------------------------------------------------------------
(* What the external model can return *)

T0 == [w |-> 2, f |-> 0]                \* 2.0
T1 == [w |-> 5, f |-> Res \div 4]       \* 5.25

Utterances ==
    { [start |-> T0, end |-> T1, text |-> <<"hello">>],
      [start |-> T1, end |-> T1, text |-> <<>>] }

Segments ==
    {[id |-> i, start |-> u.start, end |-> u.end, text |-> u.text] :
        i \in 0..MaxId, u \in Utterances}

SegmentLists == SeqsUpTo(Segments, MaxSegs)

-----------------------------------------------------------------------------
(* transcribe_video's writes *)

\* mutant: the block is numbered with the raw id
Block_raw_id(segment) ==
    ToDigits(segment.id) \o <<"\n">>
    \o format_timestamp(segment.start) \o <<" --> ">>
    \o format_timestamp(segment.end) \o <<"\n">>
    \o segment.text \o <<"\n", "\n">>

\* mutant: the start time is written on both sides of the arrow
Block_start_twice(segment) ==
    ToDigits(segment.id + 1) \o <<"\n">>
    \o format_timestamp(segment.start) \o <<" --> ">>
    \o format_timestamp(segment.start) \o <<"\n">>
    \o segment.text \o <<"\n", "\n">>

\* lines 70-75: the three writes of one loop iteration
Block(segment) ==
    ToDigits(segment.id + 1) \o <<"\n">>
    \o format_timestamp(segment.start) \o <<" --> ">>
    \o format_timestamp(segment.end) \o <<"\n">>
    \o segment.text \o <<"\n", "\n">>

\* mutant: open(srt_path, "a")
open_a(fsys, path) ==
    IF path \in DOMAIN fsys THEN fsys ELSE (path :> File(<<>>)) @@ fsys

\* line 68: open(srt_path, "w") creates the file or truncates it
open_w(fsys, path) ==
    (path :> File(<<>>)) @@ fsys

\* f.write: append at the file position
write(fsys, path, text) ==
    [fsys EXCEPT ![path] = File(fsys[path].data \o text)]

Closed == [open |-> FALSE, path |-> <<>>, k |-> 0]

\* mutant: the loop walks the list from its end
ListEntry_reversed(list, i) == list[Len(list) + 1 - i]

\* line 124: the i-th value of the for loop
ListEntry(list, i) == list[i]

\* mutant: the error is caught and the loop goes on
AfterTranscribeError_continue(a) == IF a = "all_file" THEN "loop" ELSE "exit"

\* an exception of model.transcribe is not caught anywhere: the process dies
AfterTranscribeError(a) == "crashed"

Info(p) == <<"INFO", "Transcribing", p>>
Success(p) == <<"SUCCESS", "Transcription successful for", p>>
Traceback(p) == <<"Traceback", "model.transcribe", p>>
IOTraceback(p) == <<"Traceback", "OSError", p>>
Version == <<"print", "Whisper ASR version: 0.1.0", <<>>>>

-----------------------------------------------------------------------------
(* The program *)

ProgInit ==
    /\ args \in {"version", "all_file", "single"}
    /\ pc = "main"
    /\ selected_path = None
    /\ video_files_path = <<>>
    /\ idx = 0
    /\ cur = None
    /\ result = <<>>
    /\ srt_path = None
    /\ f = Closed
    /\ fs = Fs0
    /\ console = <<>>

Init == ProgInit /\ arg = None /\ ret = None

\* lines 140-141
PrintVersion ==
    /\ pc = "main" /\ args = "version"
    /\ console' = Append(console, Version)
    /\ pc' = "exit"
    /\ UNCHANGED <<args, selected_path, video_files_path, idx, cur, result,
                   srt_path, f, fs, arg, ret>>

\* lines 117-118 and 65: the dialog returns an existing file, or "" on cancel
SelectFile ==
    /\ pc = "main" /\ args = "single"
    /\ \E p \in {q \in DOMAIN fs : fs[q].kind = "file"} \cup {<<>>} :
        /\ selected_path' = p
        /\ cur' = p
        /\ console' = Append(console, Info(p))
    /\ pc' = "transcribe"
    /\ UNCHANGED <<args, video_files_path, idx, result, srt_path, f, fs, arg, ret>>

\* line 122: the dialog returns an existing directory, or "" on cancel
SelectDirectory ==
    /\ pc = "main" /\ args = "all_file"
    /\ selected_path' \in {q \in DOMAIN fs : fs[q].kind = "dir"} \cup {<<>>}
    /\ pc' = "glob"
    /\ UNCHANGED <<args, video_files_path, idx, cur, result, srt_path, f, fs,
                   console, arg, ret>>

\* line 123
FindFiles ==
    /\ pc = "glob"
    /\ video_files_path' \in find_files_with_suffix_glob(fs, selected_path)
    /\ idx' = 0
    /\ pc' = "loop"
    /\ UNCHANGED <<args, selected_path, cur, result, srt_path, f, fs, console,
                   arg, ret>>

\* lines 124-125 and 65: take the next list entry and enter transcribe_video
ForNext ==
    /\ pc = "loop" /\ idx < Len(video_files_path)
    /\ idx' = idx + 1
    /\ cur' = ListEntry(video_files_path, idx + 1)
    /\ console' = Append(console, Info(ListEntry(video_files_path, idx + 1)))
    /\ pc' = "transcribe"
    /\ UNCHANGED <<args, selected_path, video_files_path, result, srt_path, f,
                   fs, arg, ret>>

\* line 124: the list is exhausted
ForEnd ==
    /\ pc = "loop" /\ idx = Len(video_files_path)
    /\ pc' = "exit"
    /\ UNCHANGED <<args, selected_path, video_files_path, idx, cur, result,
                   srt_path, f, fs, console, arg, ret>>

\* line 66: the model decodes a readable file into some segment list
TranscribeOk ==
    /\ pc = "transcribe" /\ IsFile(fs, cur)
    /\ result' \in SegmentLists
    /\ pc' = "open"
    /\ UNCHANGED <<args, selected_path, video_files_path, idx, cur, srt_path, f,
                   fs, console, arg, ret>>

\* line 66: model.transcribe raises (no such file, a directory, corrupt media,
\* model error)
TranscribeError ==
    /\ pc = "transcribe"
    /\ console' = Append(console, Traceback(cur))
    /\ pc' = AfterTranscribeError(args)
    /\ UNCHANGED <<args, selected_path, video_files_path, idx, cur, result,
                   srt_path, f, fs, arg, ret>>

\* lines 67-68
Open ==
    /\ pc = "open" /\ ~IsDir(fs, SrtPathOf(cur))
    /\ srt_path' = SrtPathOf(cur)
    /\ fs' = open_w(fs, SrtPathOf(cur))
    /\ f' = [open |-> TRUE, path |-> SrtPathOf(cur), k |-> 0]
    /\ pc' = "write"
    /\ UNCHANGED <<args, selected_path, video_files_path, idx, cur, result,
                   console, arg, ret>>

\* lines 67-68: open raises OSError (permissions, a directory in the way)
OpenError ==
    /\ pc = "open"
    /\ srt_path' = SrtPathOf(cur)
    /\ console' = Append(console, IOTraceback(SrtPathOf(cur)))
    /\ pc' = "crashed"
    /\ UNCHANGED <<args, selected_path, video_files_path, idx, cur, result, f,
                   fs, arg, ret>>

\* lines 69-75: one iteration of the segment loop
WriteSegment ==
    /\ pc = "write" /\ f.open /\ f.k < Len(result)
    /\ fs' = write(fs, f.path, Block(result[f.k + 1]))
    /\ f' = [f EXCEPT !.k = f.k + 1]
    /\ UNCHANGED <<args, pc, selected_path, video_files_path, idx, cur, result,
                   srt_path, console, arg, ret>>

\* lines 73-75: a write raises OSError (disk full); the with block closes the
\* file and the exception kills the process
WriteError ==
    /\ pc = "write" /\ f.open /\ f.k < Len(result)
    /\ f' = Closed
    /\ console' = Append(console, IOTraceback(f.path))
    /\ pc' = "crashed"
    /\ UNCHANGED <<args, selected_path, video_files_path, idx, cur, result,
                   srt_path, fs, arg, ret>>

\* line 68: leaving the with block closes the file
Close ==
    /\ pc = "write" /\ f.open /\ f.k = Len(result)
    /\ f' = Closed
    /\ pc' = "written"
    /\ UNCHANGED <<args, selected_path, video_files_path, idx, cur, result,
                   srt_path, fs, console, arg, ret>>

\* line 77 and the return to the caller
Return ==
    /\ pc = "written"
    /\ console' = Append(console, Success(srt_path))
    /\ pc' = IF args = "all_file" THEN "loop" ELSE "exit"
    /\ UNCHANGED <<args, selected_path, video_files_path, idx, cur, result,
                   srt_path, f, fs, arg, ret>>

Next ==
    \/ PrintVersion
    \/ SelectFile
    \/ SelectDirectory
    \/ FindFiles
    \/ ForNext
    \/ ForEnd
    \/ TranscribeOk
    \/ TranscribeError
    \/ Open
    \/ OpenError
    \/ WriteSegment
    \/ WriteError
    \/ Close
    \/ Return

Spec == Init /\ [][Next]_vars

-----------------------------------------------------------------------------
(* The pure functions called directly on enumerated inputs *)

FracSamples == {0, 1, 9, 10, Res \div 2 - 1, Res \div 2, Res - 6, Res - 5, Res - 1}
WholeSamples == {0, 1, 59, 60, 3661, 86399, 86400, 359999, 360000}

PathTokens == {"foo", "bar", "mp4", ".", "/"}
PathInputs == SeqsUpTo(PathTokens, MaxPathLen)

ProgIdle ==
    /\ args = "version"
    /\ pc = "call"
    /\ selected_path = None
    /\ video_files_path = <<>>
    /\ idx = 0
    /\ cur = None
    /\ result = <<>>
    /\ srt_path = None
    /\ f = Closed
    /\ fs = Fs0
    /\ console = <<>>

\* every whole second up to MaxWhole with the sampled fractions, and every
\* fraction with the sampled whole seconds (up to 100 hours)
InitFmt ==
    /\ ProgIdle
    /\ ret = None
    /\ \/ \E w \in 0..MaxWhole, fr \in FracSamples : arg = [w |-> w, f |-> fr]
       \/ \E w \in WholeSamples, fr \in 0..(Res - 1) : arg = [w |-> w, f |-> fr]

\* lines 80-96
CallFormat ==
    /\ pc = "call"
    /\ ret' = format_timestamp(arg)
    /\ pc' = "returned"
    /\ UNCHANGED <<args, selected_path, video_files_path, idx, cur, result,
                   srt_path, f, fs, console, arg>>

NextFmt == CallFormat

SpecFmt == InitFmt /\ [][NextFmt]_vars

InitPath == ProgIdle /\ arg \in PathInputs /\ ret = None

\* line 67
CallSrtPath ==
    /\ pc = "call"
    /\ ret' = SrtPathOf(arg)
    /\ pc' = "returned"
    /\ UNCHANGED <<args, selected_path, video_files_path, idx, cur, result,
                   srt_path, f, fs, console, arg>>

NextPath == CallSrtPath

SpecPath == InitPath /\ [][NextPath]_vars

-----------------------------------------------------------------------------
(* Reading text back *)

DigitVal(c) == CHOOSE d \in 0..9 : DigitChar[d + 1] = c

IsDigits(s) == s # <<>> /\ \A i \in 1..Len(s) : s[i] \in Range(DigitChar)

RECURSIVE Val(_)
Val(s) == IF s = <<>> THEN 0 ELSE Val(SubSeq(s, 1, Len(s) - 1)) * 10 + DigitVal(s[Len(s)])

\* the lines of a text, each ended by a line feed (an unended rest counts as a line)
RECURSIVE Lines(_)
Lines(s) ==
    IF s = <<>> THEN <<>>
    ELSE LET I == {i \in 1..Len(s) : s[i] = "\n"}
         IN  IF I = {} THEN <<s>>
             ELSE LET i == CHOOSE j \in I : \A k \in I : j <= k
                  IN  <<SubSeq(s, 1, i - 1)>> \o Lines(SubSeq(s, i + 1, Len(s)))

\* the text the loop of lines 69-75 produces for a whole segment list
Serialise(segs) == Concat([k \in 1..Len(segs) |-> Block(segs[k])])

IsInfo(e) == e[1] = "INFO"
IsSuccess(e) == e[1] = "SUCCESS"
IsTraceback(e) == e[1] = "Traceback"

AllowList == Range(suffixes)

\* the regular files below directory whose extension is on the allow-list
AllowListedFiles(fsys, directory) ==
    {p \in DOMAIN fsys :
        /\ fsys[p].kind = "file"
        /\ RelativeTo(directory, p) # None
        /\ \E ext \in AllowList : splitext(p)[2] = <<".", ext>>}

-----------------------------------------------------------------------------
(* C1 *)

\* C1 as stated: the first line of the k-th block of the written file is k,
\* whatever ids the segments carry.
C1Original ==
    pc = "written" =>
        LET L == Lines(fs[srt_path].data)
        IN  \A k \in 1..Len(result) : 4 * k - 3 <= Len(L) /\ L[4 * k - 3] = ToDigits(k)

\* C1 (amended): the first line of the k-th block of the written file is the
\* k-th segment's id plus one; it is k when the ids are 0, 1, ..., n-1 in order.
C1Theorem ==
    pc = "written" =>
        LET L == Lines(fs[srt_path].data)
        IN  /\ \A k \in 1..Len(result) :
                4 * k - 3 <= Len(L) /\ L[4 * k - 3] = ToDigits(result[k].id + 1)
            /\ (\A k \in 1..Len(result) : result[k].id = k - 1)
                => \A k \in 1..Len(result) : L[4 * k - 3] = ToDigits(k)

C1Witness ==
    /\ pc = "written"
    /\ Len(result) = 2
    /\ result[1].id = 1
    /\ result[2].id = 1

(* C2 *)

C3Theorem ==
    pc = "written" =>
        LET L == Lines(fs[srt_path].data)
            n == Len(result)
        IN  /\ Len(L) = 4 * n
            /\ \A k \in 1..n :
                /\ L[4 * k - 2] = format_timestamp(result[k].start) \o <<" --> ">>
                                  \o format_timestamp(result[k].end)
                /\ L[4 * k - 1] = result[k].text
                /\ L[4 * k] = <<>>
            /\ (n = 0 => fs[srt_path].data = <<>>)

C3Witness ==
    /\ pc = "written"
    /\ Len(result) = 2
    /\ result[1].start = T1 /\ result[2].start = T0
    /\ result[1].text = <<>>
    /\ Len(Lines(fs[srt_path].data)) = 8

(* C4 *)

\* C4: the output path is the source path without its final extension (a dot
\* and what follows it in the last component, leading dots of the name apart)
\* followed by .en.whisper.srt; without an extension the whole path is kept;
\* the directory part is untouched.
C4Theorem ==
    pc = "returned" =>
        LET n    == Len(ret) - Len(SrtSuffix)
            stem == SubSeq(ret, 1, n)
            rest == SubSeq(arg, n + 1, Len(arg))
            base == Basename(arg)
        IN  /\ n >= 0
            /\ SubSeq(ret, n + 1, Len(ret)) = SrtSuffix
            /\ IsPrefix(stem, arg)
            /\ rest # <<>> =>
                /\ rest[1] = "."
                /\ \A i \in 2..Len(rest) : rest[i] \notin {".", "/"}
            /\ rest = <<>> <=>
                ~\E i, j \in 1..Len(base) : i < j /\ base[i] # "." /\ base[j] = "."
            /\ Dirname(ret) = Dirname(arg)
            /\ (arg = <<"foo", "/", "bar", ".", "mp4">>)
                => ret = <<"foo", "/", "bar">> \o SrtSuffix
            /\ (arg = <<"foo", "/", "bar">>)
                => ret = <<"foo", "/", "bar">> \o SrtSuffix
            /\ (arg = <<"foo", ".", "bar", ".", "mp4">>)
                => ret = <<"foo", ".", "bar">> \o SrtSuffix

C4Witness ==
    /\ pc = "returned"
    /\ arg = <<"foo", ".", "bar", ".", "mp4">>
    /\ ret = <<"foo", ".", "bar", ".", "en", ".", "whisper", ".", "srt">>

(* C5 *)

\* C5 as stated: after a batch in which everything succeeded, every input has
\* its own SRT file: the output paths are as many as the inputs, and each
\* input's file holds that input's blocks from then on.
C5Original ==
    (args = "all_file" /\ pc = "exit") =>
        /\ \A i \in 1..Len(video_files_path) : IsFile(fs, SrtPathOf(video_files_path[i]))
        /\ Cardinality({SrtPathOf(video_files_path[i]) : i \in 1..Len(video_files_path)})
            = Len(video_files_path)

(* C6 *)

\* C6: whatever was at the output path before, once transcribe_video has
\* closed the file its content is exactly the serialisation of the current
\* segment list (hence the same after a second run with the same list).
C6Theorem ==
    pc = "written" =>
        /\ IsFile(fs, srt_path)
        /\ fs[srt_path].data = Serialise(result)

C6Witness ==
    /\ pc = "written"
    /\ srt_path = <<"d", "/", "a", ".", "en", ".", "whisper", ".", "srt">>
    /\ Fs0[srt_path].data # <<>>
    /\ cur = <<"d", "/", "a", ".", "mp4">>
    /\ idx = 2
    /\ Len(result) = 1

(* C7 *)

\* C7 as stated: in directory mode the list is exactly the files at any depth
\* below the selected root with an allow-listed extension, each once.
C7Original ==
    (args = "all_file" /\ pc = "loop" /\ idx = 0 /\ selected_path # <<>>) =>
        /\ Range(video_files_path) = AllowListedFiles(fs, selected_path)
        /\ Cardinality(Range(video_files_path)) = Len(video_files_path)

(* C8 *)

\* C8 as stated: when the dialog is cancelled, or the selected directory has no
\* allow-listed file, no transcription of a file is started and no file is
\* created or changed.
C8Original ==
    (\/ selected_path = <<>>
     \/ /\ args = "all_file" /\ selected_path # None
        /\ AllowListedFiles(Fs0, selected_path) = {})
    => /\ fs = Fs0
       /\ \A i \in 1..Len(console) : IsInfo(console[i]) => ~IsFile(Fs0, console[i][3])

(* C9 *)

C9Inv ==
    args = "all_file" =>
        LET infos == SelectSeq(console, IsInfo)
            done  == SelectSeq(console, IsSuccess)
        IN  /\ Len(infos) = idx
            /\ \A i \in 1..idx : infos[i][3] = video_files_path[i]
            /\ Range(video_files_path) \subseteq DOMAIN Fs0
            /\ pc \in {"transcribe", "open", "write", "written"}
                => /\ cur = video_files_path[idx]
                   /\ Len(done) = idx - 1
            /\ f.open => (pc = "write" /\ f.path = SrtPathOf(video_files_path[idx]))
            /\ pc = "transcribe" =>
                /\ ~f.open
                /\ idx > 1 =>
                    /\ done[idx - 1][3] = SrtPathOf(video_files_path[idx - 1])
                    /\ fs[SrtPathOf(video_files_path[idx - 1])].data = Serialise(result)

\* C9: the batch is sequential: the list is fixed once built and holds only
\* files that existed before the run, transcriptions start in list order, one
\* file is open at most, and when the transcription of a file starts the SRT
\* of the one before is complete and closed.
C9Theorem ==
    /\ []C9Inv
    /\ [][pc \notin {"main", "glob"} => video_files_path' = video_files_path]_vars

C9Witness ==
    /\ args = "all_file"
    /\ pc = "transcribe"
    /\ idx = 3
    /\ Len(video_files_path) = 3

(* C10 *)

====
